---- MODULE Spec2Model ----
(***************************************************************************)
(* A model of gen_conf_downloader.py: the cache-aside fetcher, the catalog *)
(* crawler, the session/talk extractor, the topic indexer, the audio       *)
(* resolver, the playlist aggregator and writer, and the orchestrator      *)
(* download_all_content.                                                   *)
(*                                                                         *)
(* Text is modelled as a sequence of tokens.  A token is a Python substring*)
(* that the program's conversions and regular expressions treat as a unit: *)
(* "&" and "amp;" are the two halves of the entity "&amp;", "%26" is the   *)
(* percent-encoding of "&", "+" the quote_plus encoding of " ".  A token   *)
(* without a reserved character stands for its own encoding.               *)
(***************************************************************************)
EXTENDS Integers, Sequences, FiniteSets, TLC

VARIABLES
    cfg,          \* args: the configuration record the pipeline runs with
    bar,          \* which progress bar class tqdm is bound to
    site,         \* upstream: wire URL -> response (documents)
    media,        \* upstream: audio link -> bytes served
    down,         \* what currently fails: the requests of these wire URLs
                  \* and audio links, the writing of these kinds of file
    cache,        \* cache_home: <<lang>> \o key -> cached text
    disk,         \* output dir: audio file path -> file content
    plfiles,      \* output dir: the .m3u files
    pc,           \* position of the program
    run,          \* which run of the program this is
    status,       \* process exit status once the program has ended
    running,      \* GuiTqdm.running of the progress bar in use
    all_conferences, all_topics, all_talks_by_topic, all_talks,
    playlists,    \* dict: key -> entries
    pkeys,        \* the dict's keys in insertion order
    idx,          \* index of the next unit of the current loop
    hist          \* history: what the last operation did (for the properties)

vars == <<cfg, bar, site, media, down, cache, disk, plfiles, pc, run, status,
          running, all_conferences, all_topics, all_talks_by_topic, all_talks,
          playlists, pkeys, idx, hist>>

(***************************************************************************)
(* Bounds of the model.                                                    *)
(***************************************************************************)
MaxSpeakerMin == 2    \* args.speaker_min ranges over 1..MaxSpeakerMin
MaxRuns == 2          \* how many times the program is run in a row
MaxCatYears == 4      \* how many years the catalogs of SpecCatalog span
MaxWeeks == 1         \* how many whole weeks the durations of SpecDuration reach
MaxTalks == 2         \* how many talks the working sets of SpecPlaylists hold

(***************************************************************************)
(* Small helpers on sequences and finite maps.                             *)
(***************************************************************************)
Range(s) == {s[i] : i \in DOMAIN s}

Put(f, k, v) == [x \in DOMAIN f \cup {k} |-> IF x = k THEN v ELSE f[x]]

Drop(f, ks) == [x \in DOMAIN f \ ks |-> f[x]]

IsPrefix(p, s) == Len(p) <= Len(s) /\ SubSeq(s, 1, Len(p)) = p

EmptyMap == [x \in {} |-> 0]

(***************************************************************************)
(* html.unescape, urllib.parse.quote_plus and unquote_plus on tokens.      *)
(***************************************************************************)
RECURSIVE unescape(_)
unescape(s) ==
    IF s = <<>> THEN <<>>
    ELSE IF Len(s) >= 2 /\ s[1] = "&" /\ s[2] = "amp;"
         THEN <<"&">> \o unescape(SubSeq(s, 3, Len(s)))
         ELSE <<s[1]>> \o unescape(Tail(s))

QuoteTok(t) ==
    CASE t = "&"      -> "%26"
      [] t = " "      -> "+"
      [] t = "+"      -> "%2B"
      [] t = "amp;"   -> "amp%3B"
      [] t = "%26"    -> "%2526"
      [] OTHER        -> t

quote_plus(s) == [i \in 1..Len(s) |-> QuoteTok(s[i])]

UnquoteTok(t) ==
    CASE t = "+"      -> " "
      [] t = "%26"    -> "&"
      [] t = "%2B"    -> "+"
      [] t = "amp%3B" -> "amp;"
      [] t = "%2526"  -> "%26"
      [] OTHER        -> t

unquote_plus(s) == [i \in 1..Len(s) |-> UnquoteTok(s[i])]

decode(text) == unquote_plus(text)

(***************************************************************************)
(* Documents.  A document is what the program's regular expressions find   *)
(* in it: re.findall(R, html) is the field of html that R reads.  The      *)
(* empty string has no match for any of them.                              *)
(***************************************************************************)
EmptyHtml ==
    [kind |-> "empty", confs |-> <<>>, groups |-> <<>>, sessions |-> <<>>,
     topics |-> <<>>, talks |-> <<>>, mp3 |-> <<>>, script |-> <<>>]

LDS_ORG_URL == <<"https://host">>
ALL_CONFERENCES_URL == LDS_ORG_URL \o <<"/study/general-conference">>
ALL_TOPICS_URL == LDS_ORG_URL \o <<"/study/general-conference/topics">>

(***************************************************************************)
(* The cache store.                                                        *)
(***************************************************************************)
get_cache_filename(args, url) == <<args.lang>> \o url

\* None is <<>>, a text t is <<t>>
get_from_cache(c, args, url) ==
    LET path == get_cache_filename(args, quote_plus(unescape(url)))
    IN  IF path \in DOMAIN c THEN <<c[path]>> ELSE <<>>

add_to_cache(c, args, html, url) ==
    Put(c, get_cache_filename(args, quote_plus(unescape(url))), html)

remove_cached_files(c, args) ==
    Drop(c, {p \in DOMAIN c : p[1] = args.lang})

\* Python truthiness of get_from_cache's result: None and '' are both false
Truthy(cached) == cached # <<>> /\ cached[1] # EmptyHtml

(***************************************************************************)
(* The fetcher.  urlopen + zlib.decompress + decode: the request fails when*)
(* the resource is down or absent upstream, decompression fails when the   *)
(* body is not a gzip stream.                                              *)
(***************************************************************************)
urlopen(url) ==
    IF url \in down \/ url \notin DOMAIN site
    THEN [ok |-> FALSE, html |-> EmptyHtml]
    ELSE IF ~site[url].gzip
         THEN [ok |-> FALSE, html |-> EmptyHtml]
         ELSE [ok |-> TRUE, html |-> site[url].html]

\* get_html without its except clause
OnFetchErrorUncaught == [html |-> EmptyHtml, raised |-> TRUE]

\* the except clause of get_html: what a failed request turns into
OnFetchError == [html |-> EmptyHtml, raised |-> FALSE]

\* the kinds of file whose writing can fail (open or os.makedirs raises an
\* OSError before a byte is written)
FsCache == <<"fs:", "cache">>
FsAudio == <<"fs:", "audio">>
FsPlaylist == <<"fs:", "playlist">>

WriteFails(kind) == kind \in down

\* the test "if cached:" of get_html
CacheHit(cached) == Truthy(cached)

get_html(c, args, url0, nocache) ==
    LET url    == unescape(url0)
        cached == IF nocache THEN <<>> ELSE get_from_cache(c, args, url)
        resp   == urlopen(url)
    IN  IF ~nocache /\ CacheHit(cached)
        THEN [html |-> cached[1], cache |-> c, reqs |-> <<>>,
              failed |-> FALSE, raised |-> FALSE, fs |-> FALSE]
        ELSE IF resp.ok /\ ~nocache /\ WriteFails(FsCache)
             \* add_to_cache raises inside the try block
             THEN [html |-> OnFetchError.html, cache |-> c, reqs |-> <<url>>,
                   failed |-> FALSE, raised |-> OnFetchError.raised, fs |-> TRUE]
        ELSE IF resp.ok
             THEN [html |-> resp.html,
                   cache |-> IF nocache THEN c
                             ELSE add_to_cache(c, args, resp.html, url),
                   reqs |-> <<url>>, failed |-> FALSE, raised |-> FALSE,
                   fs |-> FALSE]
             ELSE [html |-> OnFetchError.html, cache |-> c, reqs |-> <<url>>,
                   failed |-> TRUE, raised |-> OnFetchError.raised, fs |-> FALSE]

(***************************************************************************)
(* The catalog crawler.                                                    *)
(***************************************************************************)
YearTab ==
    ("2017" :> 2017) @@ ("2018" :> 2018) @@ ("2019" :> 2019) @@
    ("2020" :> 2020) @@ ("2021" :> 2021) @@ ("2022" :> 2022) @@
    ("2023" :> 2023)

MonthTab == ("04" :> 4) @@ ("10" :> 10)

\* re.match(CONFERENCE_LINK_YEAR_MONTH_REGEX, link): the greedy .* takes the
\* last place where <year> "/" <month> "?lang=" stands
LinkYearMonth(link) ==
    LET at == {i \in 1..Len(link) - 3 :
                  /\ link[i] \in DOMAIN YearTab
                  /\ link[i + 1] = "/"
                  /\ link[i + 2] \in DOMAIN MonthTab
                  /\ link[i + 3] = "?lang="}
    IN  IF at = {} THEN [ok |-> FALSE, year |-> 0, month |-> 0]
        ELSE LET i == CHOOSE j \in at : \A k \in at : k <= j
             IN  [ok |-> TRUE, year |-> YearTab[link[i]],
                  month |-> MonthTab[link[i + 2]]]

\* re.match(CONFERENCE_GROUPS_RANGE_REGEX, link)
GroupRange(link) ==
    LET at == {i \in 1..Len(link) - 2 :
                  /\ link[i] \in DOMAIN YearTab
                  /\ link[i + 1] \in DOMAIN YearTab
                  /\ link[i + 2] = "?lang="}
    IN  IF at = {} THEN [ok |-> FALSE, start_year |-> 0, end_year |-> 0]
        ELSE LET i == CHOOSE j \in at : \A k \in at : k <= j
             IN  [ok |-> TRUE, start_year |-> YearTab[link[i]],
                  end_year |-> YearTab[link[i + 1]]]

Conference(link, title, year, month) ==
    [link |-> link, title |-> title, year |-> year, month |-> month]

\* the test of get_conferences that keeps a conference of the index
YearRequested(args, year) == ~(year < args.start \/ year > args.end)

RECURSIVE ConferencesFrom(_, _, _)
ConferencesFrom(args, found, i) ==
    IF i > Len(found) THEN <<>>
    ELSE LET m == LinkYearMonth(found[i].link)
         IN  IF ~m.ok \/ ~YearRequested(args, m.year)
             THEN ConferencesFrom(args, found, i + 1)
             ELSE <<Conference(found[i].link, found[i].title, m.year, m.month)>>
                  \o ConferencesFrom(args, found, i + 1)

get_conferences(args, conferences_html) ==
    ConferencesFrom(args, conferences_html.confs, 1)

\* the loop of get_range_conferences over the groups from the i-th on;
\* c is the cache as the earlier fetches left it
RECURSIVE RangeConferencesFrom(_, _, _, _)
RangeConferencesFrom(c, args, groups, i) ==
    IF i > Len(groups) THEN [result |-> <<>>, cache |-> c, fetches |-> <<>>]
    ELSE LET m == GroupRange(groups[i].link)
         IN  IF ~m.ok \/ m.end_year < args.start \/ m.start_year > args.end
             THEN RangeConferencesFrom(c, args, groups, i + 1)
             ELSE LET r    == get_html(c, args,
                                       LDS_ORG_URL \o decode(groups[i].link), FALSE)
                      here == IF r.html # EmptyHtml
                              THEN get_conferences(args, r.html) ELSE <<>>
                      rest == RangeConferencesFrom(r.cache, args, groups, i + 1)
                  IN  [result |-> here \o rest.result, cache |-> rest.cache,
                       fetches |-> <<r>> \o rest.fetches]

get_range_conferences(c, args, conferences_html) ==
    RangeConferencesFrom(c, args, conferences_html.groups, 1)

Reverse(s) == [i \in 1..Len(s) |-> s[Len(s) + 1 - i]]

\* get_all_conferences without the reverse
NewestFirstKept(all) == all

\* all_conferences.reverse() of get_all_conferences
NewestLast(all) == Reverse(all)

get_all_conferences(c, args) ==
    LET r      == get_html(c, args, ALL_CONFERENCES_URL \o <<"?lang=", args.lang>>,
                           args.nocleanup)
        direct == get_conferences(args, r.html)
        ranged == get_range_conferences(r.cache, args, r.html)
    IN  [result |-> NewestLast(direct \o ranged.result), cache |-> ranged.cache,
         fetches |-> <<r>> \o ranged.fetches]

(***************************************************************************)
(* Title cleaning.  MLStripper drops markup and converts character         *)
(* references; clean_title keeps alphanumerics, ' ', '-', '_', '.' and     *)
(* strips trailing white space.                                            *)
(***************************************************************************)
MarkupTok == {"<i>", "</i>"}
PunctTok == {"!", "&", "'", ";"}

RECURSIVE rstrip(_)
rstrip(s) ==
    IF s # <<>> /\ s[Len(s)] = " " THEN rstrip(SubSeq(s, 1, Len(s) - 1)) ELSE s

CleanTok(t) == IF t = "amp;" THEN "amp" ELSE t

clean_title(title) ==
    LET text == SelectSeq(unescape(title), LAMBDA t : t \notin MarkupTok)
        kept == SelectSeq(text, LAMBDA t : t \notin PunctTok)
    IN  rstrip([i \in 1..Len(kept) |-> CleanTok(kept[i])])

\* the test of get_all_talks and update_playlists for a procedural item
IsProcedural(title) ==
    \/ "Sustaining of" \in Range(title)
    \/ (title # <<>> /\ title[1] = "Church Auditing")

(***************************************************************************)
(* The session/talk extractor and the topic indexer.                       *)
(***************************************************************************)
Session(conference, link, title, number) ==
    [conference |-> conference, link |-> link, title |-> title, number |-> number]

Talk(session, link, title, speaker, topics) ==
    [session |-> session, link |-> link, title |-> title, speaker |-> speaker,
     topics |-> topics]

TalkByTopic(link, speaker, title, topic) ==
    [link |-> link, speaker |-> speaker, title |-> title, topic |-> topic]

\* a join on the title alone
SameTitle(tbt, title, speaker) == tbt.title = title

\* the condition of the join of get_all_talks
SameTalk(tbt, title, speaker) == tbt.title = title /\ tbt.speaker = speaker

TopicsOf(tbts, title, speaker) ==
    LET hit == SelectSeq(tbts, LAMBDA tbt : SameTalk(tbt, title, speaker))
    IN  [i \in 1..Len(hit) |-> hit[i].topic]

\* the test of get_all_talks that keeps a talk in the working set
KeptInWorkingSet(title) == ~IsProcedural(title)

\* the talks of one session; with stop, the loop breaks after its first talk
RECURSIVE SessionTalksFrom(_, _, _, _, _)
SessionTalksFrom(session, found, tbts, i, stop) ==
    IF i > Len(found) \/ (stop /\ i > 1) THEN <<>>
    ELSE LET title   == clean_title(found[i].title)
             speaker == found[i].speaker
             topics  == TopicsOf(tbts, title, speaker)
             here    == IF KeptInWorkingSet(title)
                        THEN <<Talk(session, found[i].link, title, speaker, topics)>>
                        ELSE <<>>
         IN  here \o SessionTalksFrom(session, found, tbts, i + 1, stop)

\* the sessions of one conference from the num-th on; cancelAt is the session
\* at whose set_description_str the Cancel event is read (0: none is)
RECURSIVE ConferenceTalksFrom(_, _, _, _, _)
ConferenceTalksFrom(conference, sessions, tbts, num, cancelAt) ==
    IF num > Len(sessions) THEN <<>>
    ELSE LET session == Session(conference, sessions[num].link,
                                sessions[num].title, num * 10)
             here    == SessionTalksFrom(session, sessions[num].talks, tbts, 1,
                                         cancelAt = num)
         IN  IF cancelAt = num THEN here
             ELSE here \o ConferenceTalksFrom(conference, sessions, tbts,
                                              num + 1, cancelAt)

\* what get_all_talks leaves out of the working set (history only)
RECURSIVE SkippedFrom(_, _, _, _)
SkippedFrom(session, found, tbts, i) ==
    IF i > Len(found) THEN <<>>
    ELSE LET title == clean_title(found[i].title)
         IN  (IF KeptInWorkingSet(title) THEN <<>>
              ELSE <<Talk(session, found[i].link, title, found[i].speaker,
                          TopicsOf(tbts, title, found[i].speaker))>>)
             \o SkippedFrom(session, found, tbts, i + 1)

RECURSIVE SkippedIn(_, _, _, _)
SkippedIn(conference, sessions, tbts, num) ==
    IF num > Len(sessions) THEN <<>>
    ELSE SkippedFrom(Session(conference, sessions[num].link, sessions[num].title,
                             num * 10),
                     sessions[num].talks, tbts, 1)
         \o SkippedIn(conference, sessions, tbts, num + 1)

Topic(link, topic) == [link |-> link, topic |-> topic]

get_all_topics(c, args) ==
    LET r == get_html(c, args, ALL_TOPICS_URL \o <<"?lang=", args.lang>>,
                      args.nocleanup)
    IN  [result |-> [i \in 1..Len(r.html.topics) |->
                        Topic(r.html.topics[i].link, r.html.topics[i].topic)],
         cache |-> r.cache, fetches |-> <<r>>]

\* one pass of the loop of get_all_talks_by_topic
TopicTalks(c, args, topic) ==
    LET r == get_html(c, args, LDS_ORG_URL \o decode(topic.link), args.nocleanup)
    IN  [result |-> [i \in 1..Len(r.html.talks) |->
                        TalkByTopic(r.html.talks[i].link, r.html.talks[i].speaker,
                                    clean_title(r.html.talks[i].title), topic.topic)],
         cache |-> r.cache, fetches |-> <<r>>]

(***************************************************************************)
(* The audio resolver.                                                     *)
(***************************************************************************)
DirTok == {"https://media/", "/"}
Mp3Tok == {"a.mp3", "b.mp3", "c.mp3", "d.mp3"}

\* re.match(MP3_DOWNLOAD_FILENAME_REGEX, link): <<>> when there is no match
Mp3DownloadFilename(link) ==
    LET at == {i \in 2..Len(link) - 1 :
                  link[i - 1] \in DirTok /\ link[i] \in Mp3Tok /\ link[i + 1] = "?lang="}
    IN  IF at = {} THEN <<>>
        ELSE <<link[CHOOSE j \in at : \A k \in at : k <= j]>>

\* re.match(MP3_MEDIAURL_FILENAME_REGEX, link)
Mp3MediaUrlFilename(link) ==
    LET at == {i \in 2..Len(link) : link[i - 1] \in DirTok /\ link[i] \in Mp3Tok}
    IN  IF at = {} THEN <<>>
        ELSE <<link[CHOOSE j \in at : \A k \in at : k <= j]>>

Audio(link, file) == [link |-> link, file |-> file]

\* html.mp3: the hrefs MP3_DOWNLOAD_REGEX matches; html.script: the blobs
\* SCRIPT_BASE64_REGEX matches, each with whether base64 decodes it and the
\* mediaUrl values tagged "audio" of its decoded text
get_audio(c, args, talk) ==
    LET r        == get_html(c, args, LDS_ORG_URL \o decode(talk.link), FALSE)
        mp3_link == r.html.mp3
        match    == r.html.script
        none     == [audio |-> <<>>, cache |-> r.cache, fetches |-> <<r>>,
                     raised |-> FALSE]
        make(link, mp3_file) ==
            IF mp3_file = <<>> THEN none
            ELSE [none EXCEPT !.audio = <<Audio(link, mp3_file[1])>>]
    IN  IF mp3_link # <<>>
        THEN make(mp3_link[1], Mp3DownloadFilename(mp3_link[1]))
        ELSE IF match = <<>> THEN none
        ELSE IF ~match[1].valid THEN [none EXCEPT !.raised = TRUE]
        ELSE IF match[1].media = <<>> THEN none
        ELSE make(match[1].media[1], Mp3MediaUrlFilename(match[1].media[1]))

(***************************************************************************)
(* Output paths.  A path is the record of its components.                  *)
(***************************************************************************)
get_year_path(args, conference) == conference.year

get_month_path(args, conference) ==
    IF 4 = conference.month THEN "April" ELSE "October"

get_session_path(args, session, nonumbers) ==
    IF args.nonumbers \/ nonumbers
    THEN [number |-> 0, title |-> session.title]
    ELSE [number |-> session.number, title |-> session.title]

get_relative_path(args, session) ==
    [year |-> get_year_path(args, session.conference),
     month |-> get_month_path(args, session.conference),
     session |-> get_session_path(args, session, FALSE)]

FilePath(args, talk, audio) ==
    [rel |-> get_relative_path(args, talk.session), file |-> audio.file]

(***************************************************************************)
(* The audio download.  A file is the bytes it holds: "mp3" is an MPEG     *)
(* stream of secs seconds, "junk" is bytes mutagen finds no frame in,      *)
(* "empty" is no byte at all.                                              *)
(***************************************************************************)
\* a bar whose write raises whatever it is given
WriteRaises(b) == TRUE

\* progress_bar.write(err, file=sys.stderr) with err an exception object:
\* DummyTqdm.write evaluates err + end, a TypeError; GuiTqdm.write shows it
\* in the window
WriteOfErrorRaises(b) == b # "gui"

\* download_audio answering as for a failed download when the file is there
ResultAsFailed == FALSE

\* the result of download_audio when the file is on disk already
ResultWhenOnDisk == TRUE

download_audio(b, d, file_path, audio) ==
    IF file_path \in DOMAIN d
    THEN [ret |-> ResultWhenOnDisk, disk |-> d, raised |-> FALSE, tried |-> FALSE,
          fs |-> FALSE]
    ELSE IF audio.link \in down \/ audio.link \notin DOMAIN media
         THEN [ret |-> FALSE, disk |-> d, raised |-> WriteOfErrorRaises(b),
               tried |-> TRUE, fs |-> FALSE]
         ELSE IF WriteFails(FsAudio)
         \* write_mp3_to_disk raises inside the try block
         THEN [ret |-> FALSE, disk |-> d, raised |-> WriteOfErrorRaises(b),
               tried |-> TRUE, fs |-> TRUE]
         ELSE [ret |-> media[audio.link].bytes # "empty",
               disk |-> Put(d, file_path, media[audio.link]),
               raised |-> FALSE, tried |-> TRUE, fs |-> FALSE]

\* MP3(file_path): mutagen raises HeaderNotFoundError unless it finds a frame
Mp3Loads(d, file_path) == d[file_path].bytes = "mp3"

(***************************************************************************)
(* The playlist aggregator.                                                *)
(***************************************************************************)
GCAll == <<"Conferences/GC-All">>
SpeakerKey(speaker) == <<"Speakers/GC-S-">> \o speaker
TopicKey(topic) == <<"Topics/GC-T-">> \o topic

\* dict.setdefault(key, []) on the dict given as its keys in insertion order
SetDefault(keys, key) == IF key \in Range(keys) THEN keys ELSE Append(keys, key)

RECURSIVE SetDefaultAll(_, _, _)
SetDefaultAll(keys, topics, i) ==
    IF i > Len(topics) THEN keys
    ELSE SetDefaultAll(SetDefault(keys, TopicKey(topics[i])), topics, i + 1)

RECURSIVE PlaylistKeysFrom(_, _, _)
PlaylistKeysFrom(keys, talks, i) ==
    IF i > Len(talks) THEN keys
    ELSE PlaylistKeysFrom(
             SetDefaultAll(SetDefault(SetDefault(keys, GCAll),
                                      SpeakerKey(talks[i].speaker)),
                           talks[i].topics, 1),
             talks, i + 1)

\* create_playlists: the keys in insertion order, each with the empty list
create_playlists(args, talks) == PlaylistKeysFrom(<<>>, talks, 1)

\* list.append where the program has list.insert(0, ...)
InsertLast(list, entry) == Append(list, entry)

\* list.append of the conference groups, list.insert(0, ...) of the others
AppendEntry(list, entry) == Append(list, entry)
InsertFirst(list, entry) == <<entry>> \o list

RECURSIVE AddToTopics(_, _, _, _)
AddToTopics(pl, topics, entry, i) ==
    IF i > Len(topics) THEN pl
    ELSE AddToTopics([pl EXCEPT ![TopicKey(topics[i])] = InsertFirst(@, entry)],
                     topics, entry, i + 1)

\* ord is not a key of the program's dict: it is the talk's place in
\* all_talks, kept to state the order of the lists
update_playlists(args, pl, talk, audio, d, ord) ==
    LET relative_path == get_relative_path(args, talk.session)
        duration      == d[[rel |-> relative_path, file |-> audio.file]].secs
        entry         == [duration |-> duration,
                          path |-> [rel |-> relative_path, file |-> audio.file],
                          title |-> talk.title,
                          year |-> talk.session.conference.year,
                          ord |-> ord]
        pl1           == [pl EXCEPT ![GCAll] = AppendEntry(@, entry)]
        pl2           == AddToTopics(pl1, talk.topics, entry, 1)
    IN  IF IsProcedural(talk.title) THEN pl2
        ELSE [pl2 EXCEPT ![SpeakerKey(talk.speaker)] = InsertFirst(@, entry)]

(***************************************************************************)
(* The playlist writer.                                                    *)
(***************************************************************************)
\* the hours taken without the remainder by 24
get_duration_text_whole_hours(duration_secs) ==
    LET mins  == (duration_secs \div 60) % 60
        hours == duration_secs \div (60 * 60)
        days  == (duration_secs \div (60 * 60 * 24)) % 7
        weeks == duration_secs \div (60 * 60 * 24 * 7)
    IN  (IF weeks # 0 THEN <<[n |-> weeks, unit |-> "w"]>> ELSE <<>>)
        \o (IF days # 0 THEN <<[n |-> days, unit |-> "d"]>> ELSE <<>>)
        \o (IF hours # 0 THEN <<[n |-> hours, unit |-> "h"]>> ELSE <<>>)
        \o (IF mins # 0 THEN <<[n |-> mins, unit |-> "m"]>> ELSE <<>>)

get_duration_text(duration_secs) ==
    LET mins  == (duration_secs \div 60) % 60
        hours == (duration_secs \div (60 * 60)) % 24
        days  == (duration_secs \div (60 * 60 * 24)) % 7
        weeks == duration_secs \div (60 * 60 * 24 * 7)
    IN  (IF weeks # 0 THEN <<[n |-> weeks, unit |-> "w"]>> ELSE <<>>)
        \o (IF days # 0 THEN <<[n |-> days, unit |-> "d"]>> ELSE <<>>)
        \o (IF hours # 0 THEN <<[n |-> hours, unit |-> "h"]>> ELSE <<>>)
        \o (IF mins # 0 THEN <<[n |-> mins, unit |-> "m"]>> ELSE <<>>)

get_playlist_info(first, last, count, duration_secs) ==
    [years |-> IF first # 0 /\ last # 0 THEN <<first, last>> ELSE <<>>,
     count |-> IF count # 0 THEN <<count>> ELSE <<>>,
     text  |-> get_duration_text(duration_secs)]

RECURSIVE SumDurations(_, _)
SumDurations(data, i) ==
    IF i > Len(data) THEN 0 ELSE data[i].duration + SumDurations(data, i + 1)

\* glob.glob(f'{playlist_path}*.m3u'): a file is named {group}-({info}).m3u
GlobMatches(playlist_path, file) == IsPrefix(playlist_path, file.group)

remove_playlist_files(files, playlist_path) ==
    {f \in files : ~GlobMatches(playlist_path, f)}

\* the test with > for >=
AboveMinimum(args, first, last, data) ==
    first = 0 \/ last = 0 \/ Len(data) > args.speaker_min

\* the test of write_playlist_file that lets a list be written
MeetsMinimum(args, first, last, data) ==
    first = 0 \/ last = 0 \/ Len(data) >= args.speaker_min

write_playlist_file(args, files, playlist_path, playlist_data) ==
    LET kept  == remove_playlist_files(files, playlist_path)
        first == playlist_data[1].year
        last  == playlist_data[Len(playlist_data)].year
    IN  IF playlist_data = <<>> THEN kept
        ELSE IF ~MeetsMinimum(args, first, last, playlist_data) THEN kept
        ELSE kept \cup
             {[group |-> playlist_path,
               info  |-> get_playlist_info(first, last, Len(playlist_data),
                                           SumDurations(playlist_data, 1)),
               lines |-> [i \in 1..Len(playlist_data) |->
                             [extinf |-> get_duration_text(playlist_data[i].duration),
                              title |-> playlist_data[i].title,
                              path |-> playlist_data[i].path]]]}

(***************************************************************************)
(* The upstream site the pipeline is run against: an index with one direct *)
(* conference (April 2020) and one group (2017-2019) holding October 2019, *)
(* three talks and one procedural item, and a topic index of two topics.   *)
(***************************************************************************)
Wire(link) == unescape(LDS_ORG_URL \o decode(link))

Resp(html) == [gzip |-> TRUE, html |-> html]

ConfLink(y, m) == <<"/study/general-conference/", y, "/", m, "?lang=", "eng">>
GroupLink(y1, y2) == <<"/study/general-conference/", y1, y2, "?lang=", "eng">>
TalkLink(name) == <<"/study/general-conference/talk/", name, "?lang=", "eng">>
TopicLink(name) == <<"/study/general-conference/topics/", name, "?lang=", "eng">>

Ann == <<"Ann">>
Bob == <<"Bob">>
Faith == <<"Faith">>
FaithHope == <<"Faith", " ", "Hope">>

IndexDoc ==
    [EmptyHtml EXCEPT
        !.kind = "index",
        !.confs = <<[link |-> ConfLink("2020", "04"), title |-> <<"April", " ", "2020">>]>>,
        !.groups = <<[link |-> GroupLink("2017", "2019"), title |-> <<"2017", "-", "2019">>]>>]

GroupDoc ==
    [EmptyHtml EXCEPT
        !.kind = "group",
        !.confs = <<[link |-> ConfLink("2019", "10"),
                     title |-> <<"October", " ", "2019">>]>>]

Conf2019Doc ==
    [EmptyHtml EXCEPT
        !.kind = "conference",
        !.sessions =
            <<[link |-> ConfLink("2019", "10") \o <<"#sat">>, title |-> "Saturday",
               talks |-> <<[link |-> TalkLink("t1"), title |-> <<"Faith">>,
                            speaker |-> Ann],
                           [link |-> TalkLink("ts"),
                            title |-> <<"Sustaining of", " ", "Officers">>,
                            speaker |-> Bob]>>]>>]

Conf2020Doc ==
    [EmptyHtml EXCEPT
        !.kind = "conference",
        !.sessions =
            <<[link |-> ConfLink("2020", "04") \o <<"#sat">>, title |-> "Saturday",
               talks |-> <<[link |-> TalkLink("t2"), title |-> <<"Hope", "!", " ">>,
                            speaker |-> Ann]>>],
              [link |-> ConfLink("2020", "04") \o <<"#sun">>, title |-> "Sunday",
               talks |-> <<[link |-> TalkLink("t3"), title |-> <<"Charity">>,
                            speaker |-> Bob]>>]>>]

TopicsDoc ==
    [EmptyHtml EXCEPT
        !.kind = "topics",
        !.topics = <<[link |-> TopicLink("faith"), topic |-> Faith],
                     [link |-> TopicLink("faith") \o <<"+", "hope">>,
                      topic |-> FaithHope]>>]

TopicFaithDoc ==
    [EmptyHtml EXCEPT
        !.kind = "topic",
        !.talks = <<[link |-> TalkLink("t1"), speaker |-> Ann, title |-> <<"Faith">>],
                    [link |-> TalkLink("t2"), speaker |-> Ann, title |-> <<"Hope">>],
                    [link |-> TalkLink("ts"), speaker |-> Bob,
                     title |-> <<"Sustaining of", " ", "Officers">>]>>]

TopicFaithHopeDoc ==
    [EmptyHtml EXCEPT
        !.kind = "topic",
        !.talks = <<[link |-> TalkLink("t2"), speaker |-> Ann,
                     title |-> <<"Hope", "!">>],
                    [link |-> TalkLink("tx"), speaker |-> Bob, title |-> <<"Faith">>]>>]

MediaLink(file) == <<"https://media/", file>>
DownloadLink(file) == <<"https://media/", file, "?lang=", "eng">>

\* a talk page with the download anchor
AnchorDoc(file) ==
    [EmptyHtml EXCEPT !.kind = "talk", !.mp3 = <<DownloadLink(file)>>]

\* a talk page with the embedded script only
ScriptDoc(file) ==
    [EmptyHtml EXCEPT
        !.kind = "talk",
        !.script = <<[valid |-> TRUE, media |-> <<MediaLink(file)>>]>>]

\* a talk page with neither: a music-only segment
PlainTalkDoc == [EmptyHtml EXCEPT !.kind = "talk"]

IndexUrl == ALL_CONFERENCES_URL \o <<"?lang=", "eng">>
TopicsUrl == ALL_TOPICS_URL \o <<"?lang=", "eng">>

PipelineSite ==
    (IndexUrl :> Resp(IndexDoc))
    @@ (Wire(GroupLink("2017", "2019")) :> Resp(GroupDoc))
    @@ (Wire(ConfLink("2019", "10")) :> Resp(Conf2019Doc))
    @@ (Wire(ConfLink("2020", "04")) :> Resp(Conf2020Doc))
    @@ (TopicsUrl :> Resp(TopicsDoc))
    @@ (Wire(TopicLink("faith")) :> Resp(TopicFaithDoc))
    @@ (Wire(TopicLink("faith") \o <<"+", "hope">>) :> Resp(TopicFaithHopeDoc))
    @@ (Wire(TalkLink("t1")) :> Resp(AnchorDoc("a.mp3")))
    @@ (Wire(TalkLink("t2")) :> Resp(ScriptDoc("b.mp3")))
    @@ (Wire(TalkLink("t3")) :> Resp(AnchorDoc("c.mp3")))
    @@ (Wire(TalkLink("ts")) :> Resp(AnchorDoc("d.mp3")))

Mp3Bytes(secs) == [bytes |-> "mp3", secs |-> secs]

\* what the media host serves; kind is what it serves for c.mp3
PipelineMedia(kind) ==
    (DownloadLink("a.mp3") :> Mp3Bytes(600))
    @@ (MediaLink("b.mp3") :> Mp3Bytes(900))
    @@ (DownloadLink("c.mp3") :> [bytes |-> kind, secs |-> IF kind = "mp3" THEN 3725 ELSE 0])
    @@ (DownloadLink("d.mp3") :> Mp3Bytes(125))

(***************************************************************************)
(* The states the program is started in.                                   *)
(***************************************************************************)
Configs ==
    [lang : {"eng"}, start : {2017}, end : {2023}, noplaylists : BOOLEAN,
     nocleanup : BOOLEAN, nonumbers : BOOLEAN, speaker_min : 1..MaxSpeakerMin]

\* the class tqdm is bound to: DummyTqdm or GuiTqdm.  tqdm.tqdm of the
\* library is as DummyTqdm in all that is modelled: it has no running
\* attribute, and its write hands what it is given to file.write
Bars == {"dummy", "gui"}

Resources == DOMAIN PipelineSite \cup DOMAIN PipelineMedia("mp3")

\* the failures of one run: no resource fails, or one does
DownSets == {{}} \cup {{r} : r \in Resources}

Conf2019 == Conference(ConfLink("2019", "10"), <<"October", " ", "2019">>, 2019, 10)

\* a cache earlier runs left: every page get_html caches in all modes, the
\* page of talk t1 as it was before its recording was published
UsedCache(args) ==
    add_to_cache(
        add_to_cache(
            add_to_cache(
                add_to_cache(EmptyMap, args, GroupDoc, Wire(GroupLink("2017", "2019"))),
                args, PlainTalkDoc, Wire(TalkLink("t1"))),
            args, ScriptDoc("b.mp3"), Wire(TalkLink("t2"))),
        args, AnchorDoc("c.mp3"), Wire(TalkLink("t3")))

\* audio an earlier version of the program left: the procedural item's
UsedDisk(args) ==
    ([rel |-> get_relative_path(args, Session(Conf2019, <<>>, "Saturday", 10)),
      file |-> "d.mp3"] :> Mp3Bytes(125))

\* playlists an earlier run left, with the summary they had then
UsedFiles ==
    {[group |-> SpeakerKey(Ann), info |-> get_playlist_info(2019, 2019, 1, 600),
      lines |-> <<>>],
     [group |-> SpeakerKey(Bob), info |-> get_playlist_info(2019, 2019, 1, 125),
      lines |-> <<>>]}

NoPrior == [outcome |-> "", cache0 |-> EmptyMap, files |-> {}]

HistInit(c, prior, same) ==
    [op |-> "start", fetches |-> <<>>, cancelStage |-> "", crash |-> "",
     skipped |-> <<>>, wkey |-> <<>>, wremoved |-> {}, wrote |-> FALSE,
     fserr |-> "", cache0 |-> c, prior |-> prior, sameUpstream |-> same]

Summary(r) ==
    [url |-> r.reqs, failed |-> r.failed, raised |-> r.raised,
     empty |-> (r.html = EmptyHtml), fs |-> r.fs]

Summaries(rs) == [i \in 1..Len(rs) |-> Summary(rs[i])]

Init ==
    /\ cfg \in Configs
    /\ bar \in Bars
    /\ site = PipelineSite
    /\ media \in {PipelineMedia(k) : k \in {"mp3", "junk", "empty"}}
    /\ down \in DownSets
    /\ \E used \in BOOLEAN :
          /\ cache = IF used THEN UsedCache(cfg) ELSE EmptyMap
          /\ disk = IF used THEN UsedDisk(cfg) ELSE EmptyMap
          /\ plfiles = IF used THEN UsedFiles ELSE {}
          /\ hist = HistInit(cache, NoPrior, TRUE)
    /\ pc = "conferences"
    /\ run = 1
    /\ status = -1
    /\ running = TRUE
    /\ all_conferences = <<>>
    /\ all_topics = <<>>
    /\ all_talks_by_topic = <<>>
    /\ all_talks = <<>>
    /\ playlists = EmptyMap
    /\ pkeys = <<>>
    /\ idx = 1

(***************************************************************************)
(* The progress bar.                                                       *)
(***************************************************************************)
\* where GuiTqdm._check_events may read the Cancel event during one unit:
\* in set_description_str, in update, or not at all; the other two bars
\* have no running attribute
CancelChoices == IF bar = "gui" THEN {"none", "desc", "update"} ELSE {"none"}

\* a bar whose __exit__ never ends the program
CloseReturns(b, stillRunning) == FALSE

\* GuiTqdm.__exit__: sys.exit(2) when the bar is closed after a Cancel
ExitOnClose(b, stillRunning) == b = "gui" /\ ~stillRunning

upstream == <<site, media, down>>
config == <<cfg, bar>>
crawl == <<all_conferences, all_topics, all_talks_by_topic, all_talks>>

\* the with block of a loop ends: the bar closes and the program goes on
\* to next, or exits
CloseTo(next) ==
    /\ IF ExitOnClose(bar, running)
       THEN /\ pc' = "exit"
            /\ status' = 2
            /\ running' = running
       ELSE /\ pc' = next
            /\ status' = status
            /\ running' = TRUE
    /\ idx' = 1
    /\ hist' = [hist EXCEPT !.op = pc, !.fetches = <<>>]

\* an exception leaves the with block of a loop: the bar closes first
RaiseTo(stillRunning) ==
    IF ExitOnClose(bar, stillRunning)
    THEN pc' = "exit" /\ status' = 2
    ELSE pc' = "crashed" /\ status' = 1

(***************************************************************************)
(* get_all_talks: the conferences, the topic index, the talks.             *)
(***************************************************************************)
DiscoverConferences ==
    /\ pc = "conferences"
    /\ LET r == get_all_conferences(cache, cfg)
       IN  /\ all_conferences' = r.result
           /\ cache' = r.cache
           /\ hist' = [hist EXCEPT !.op = "conferences",
                                   !.fetches = Summaries(r.fetches)]
           /\ pc' = IF ~cfg.noplaylists THEN "topics"
                    ELSE IF r.result = <<>> THEN "extract_close" ELSE "extract"
    /\ UNCHANGED <<config, upstream, disk, plfiles, run, status, running,
                   all_topics, all_talks_by_topic, all_talks, playlists, pkeys, idx>>

DiscoverTopics ==
    /\ pc = "topics"
    /\ LET r == get_all_topics(cache, cfg)
       IN  /\ all_topics' = r.result
           /\ cache' = r.cache
           /\ hist' = [hist EXCEPT !.op = "topics", !.fetches = Summaries(r.fetches)]
           /\ pc' = IF r.result = <<>> THEN "topics_close" ELSE "topic_loop"
    /\ UNCHANGED <<config, upstream, disk, plfiles, run, status, running,
                   all_conferences, all_talks_by_topic, all_talks, playlists,
                   pkeys, idx>>

\* one pass of the loop of get_all_talks_by_topic
TopicStep ==
    /\ pc = "topic_loop"
    /\ \E cancel \in CancelChoices :
          LET r == TopicTalks(cache, cfg, all_topics[idx])
          IN  /\ all_talks_by_topic' = all_talks_by_topic \o r.result
              /\ cache' = r.cache
              /\ running' = (cancel = "none")
              /\ hist' = [hist EXCEPT
                             !.op = "topic_loop", !.fetches = Summaries(r.fetches),
                             !.cancelStage = IF cancel = "none" THEN @ ELSE "topics"]
              /\ pc' = IF cancel # "none" \/ idx + 1 > Len(all_topics)
                       THEN "topics_close" ELSE "topic_loop"
    /\ idx' = idx + 1
    /\ UNCHANGED <<config, upstream, disk, plfiles, run, status, all_conferences,
                   all_topics, all_talks, playlists, pkeys>>

TopicsClose ==
    /\ pc = "topics_close"
    /\ CloseTo(IF all_conferences = <<>> THEN "extract_close" ELSE "extract")
    /\ UNCHANGED <<config, upstream, cache, disk, plfiles, run, crawl, playlists, pkeys>>

\* one pass of the loop of get_all_talks over the conferences; the Cancel
\* event is read at the set_description_str of session at, or at update
ExtractStep ==
    /\ pc = "extract"
    /\ LET conference == all_conferences[idx]
           r == get_html(cache, cfg, LDS_ORG_URL \o decode(conference.link),
                         cfg.nocleanup)
           sessions == r.html.sessions
       IN  \E at \in (IF bar = "gui" THEN 0..Len(sessions) + 1 ELSE {0}) :
              /\ all_talks' = all_talks
                    \o ConferenceTalksFrom(conference, sessions, all_talks_by_topic,
                                           1, IF at > Len(sessions) THEN 0 ELSE at)
              /\ cache' = r.cache
              /\ running' = (at = 0)
              /\ hist' = [hist EXCEPT
                             !.op = "extract", !.fetches = Summaries(<<r>>),
                             !.cancelStage = IF at = 0 THEN @ ELSE "extract",
                             !.skipped = @ \o
                                 (IF at # 0 THEN <<>>
                                  ELSE SkippedIn(conference, sessions,
                                                 all_talks_by_topic, 1))]
              /\ pc' = IF at # 0 \/ idx + 1 > Len(all_conferences)
                       THEN "extract_close" ELSE "extract"
    /\ idx' = idx + 1
    /\ UNCHANGED <<config, upstream, disk, plfiles, run, status, all_conferences,
                   all_topics, all_talks_by_topic, playlists, pkeys>>

\* get_all_talks returns; download_all_content creates the playlists and
\* opens the bar of the talks
ExtractClose ==
    /\ pc = "extract_close"
    /\ CloseTo(IF all_talks = <<>> THEN "download_close" ELSE "download")
    /\ pkeys' = IF cfg.noplaylists \/ ExitOnClose(bar, running) THEN pkeys
                ELSE create_playlists(cfg, all_talks)
    /\ playlists' = [k \in Range(pkeys') |-> <<>>]
    /\ UNCHANGED <<config, upstream, cache, disk, plfiles, run, crawl>>

(***************************************************************************)
(* download_all_content: one pass of the loop over the talks.              *)
(***************************************************************************)
\* the body of the loop for one talk whose audio get_audio resolved: the
\* download, the tags, the aggregation
TalkWithAudio(b, args, d, pl, talk, audio, ord) ==
    LET file_path == FilePath(args, talk, audio)
        dl        == download_audio(b, d, file_path, audio)
    IN  IF dl.raised
        THEN [disk |-> dl.disk, playlists |-> pl, crash |-> "write", fs |-> dl.fs]
        ELSE IF ~dl.ret
        THEN [disk |-> dl.disk, playlists |-> pl, crash |-> "", fs |-> dl.fs]
        ELSE IF ~Mp3Loads(dl.disk, file_path)
        THEN [disk |-> dl.disk, playlists |-> pl, crash |-> "mp3", fs |-> FALSE]
        ELSE [disk |-> dl.disk,
              playlists |-> IF args.noplaylists THEN pl
                            ELSE update_playlists(args, pl, talk, audio, dl.disk, ord),
              crash |-> "", fs |-> FALSE]

\* the body of the loop for one talk, given what get_audio returned
TalkBody(b, args, d, pl, talk, ga, ord) ==
    IF ga.raised
    THEN [disk |-> d, playlists |-> pl, crash |-> "base64", fs |-> FALSE]
    ELSE IF ga.audio = <<>>
    THEN [disk |-> d, playlists |-> pl, crash |-> "", fs |-> FALSE]
    ELSE TalkWithAudio(b, args, d, pl, talk, ga.audio[1], ord)

DownloadStep ==
    /\ pc = "download"
    /\ \E cancel \in CancelChoices :
          LET ga == get_audio(cache, cfg, all_talks[idx])
              o  == TalkBody(bar, cfg, disk, playlists, all_talks[idx], ga, idx)
          IN  /\ cache' = ga.cache
              /\ disk' = o.disk
              /\ playlists' = o.playlists
              /\ IF o.crash # ""
                 THEN /\ RaiseTo(cancel # "desc")
                      /\ running' = (cancel # "desc")
                      /\ hist' = [hist EXCEPT
                                     !.op = "download",
                                     !.fetches = Summaries(ga.fetches),
                                     !.crash = o.crash,
                                     !.fserr = IF o.fs THEN "audio" ELSE "",
                                     !.cancelStage =
                                         IF cancel # "desc" THEN @ ELSE "download"]
                 ELSE /\ pc' = IF cancel # "none" \/ idx + 1 > Len(all_talks)
                               THEN "download_close" ELSE "download"
                      /\ status' = status
                      /\ running' = (cancel = "none")
                      /\ hist' = [hist EXCEPT
                                     !.op = "download",
                                     !.fetches = Summaries(ga.fetches),
                                     !.fserr = IF o.fs THEN "audio" ELSE "",
                                     !.cancelStage =
                                         IF cancel = "none" THEN @ ELSE "download"]
    /\ idx' = idx + 1
    /\ UNCHANGED <<config, upstream, plfiles, run, crawl, pkeys>>

DownloadClose ==
    /\ pc = "download_close"
    /\ CloseTo(IF cfg.noplaylists THEN "cleanup"
               ELSE IF pkeys = <<>> THEN "write_close" ELSE "write")
    /\ UNCHANGED <<config, upstream, cache, disk, plfiles, run, crawl, playlists, pkeys>>

(***************************************************************************)
(* write_playlists, the cache cleanup, the end.                            *)
(***************************************************************************)
\* whether write_playlist_file opens a file for the list
OpensFile(args, playlist_data) ==
    /\ playlist_data # <<>>
    /\ MeetsMinimum(args, playlist_data[1].year,
                    playlist_data[Len(playlist_data)].year, playlist_data)

\* open or os.makedirs of write_playlist_file raises: the files of the glob
\* are removed already, the exception leaves write_playlists
WriteStepFails(key, cancel) ==
    /\ plfiles' = remove_playlist_files(plfiles, key)
    /\ RaiseTo(cancel # "desc")
    /\ running' = (cancel # "desc")
    /\ hist' = [hist EXCEPT
                   !.op = "write", !.fetches = <<>>, !.wkey = key,
                   !.wremoved = {f \in plfiles : GlobMatches(key, f)},
                   !.crash = "playlist", !.fserr = "playlist",
                   !.cancelStage = IF cancel # "desc" THEN @ ELSE "write"]

WriteStepDone(key, cancel) ==
    /\ plfiles' = write_playlist_file(cfg, plfiles, key, playlists[key])
    /\ running' = (cancel = "none")
    /\ status' = status
    /\ hist' = [hist EXCEPT
                   !.op = "write", !.fetches = <<>>, !.wrote = TRUE,
                   !.wkey = key, !.fserr = "",
                   !.wremoved = {f \in plfiles : GlobMatches(key, f)},
                   !.cancelStage = IF cancel = "none" THEN @ ELSE "write"]
    /\ pc' = IF cancel # "none" \/ idx + 1 > Len(pkeys)
             THEN "write_close" ELSE "write"

WriteStep ==
    /\ pc = "write"
    /\ \E cancel \in CancelChoices :
          IF WriteFails(FsPlaylist) /\ OpensFile(cfg, playlists[pkeys[idx]])
          THEN WriteStepFails(pkeys[idx], cancel)
          ELSE WriteStepDone(pkeys[idx], cancel)
    /\ idx' = idx + 1
    /\ UNCHANGED <<config, upstream, cache, disk, run, crawl, playlists, pkeys>>

WriteClose ==
    /\ pc = "write_close"
    /\ CloseTo("cleanup")
    /\ UNCHANGED <<config, upstream, cache, disk, plfiles, run, crawl, playlists, pkeys>>

Cleanup ==
    /\ pc = "cleanup"
    /\ cache' = IF ~cfg.nocleanup THEN remove_cached_files(cache, cfg) ELSE cache
    /\ pc' = "done"
    /\ status' = 0
    /\ hist' = [hist EXCEPT !.op = "cleanup", !.fetches = <<>>]
    /\ UNCHANGED <<config, upstream, disk, plfiles, run, running, crawl, playlists,
                   pkeys, idx>>

\* the program has run to its end and is started again with the same
\* arguments, on what that run left; failing resources have stayed as they were or been repaired
Ended == pc \in {"done", "exit", "crashed"}

Rerun ==
    /\ pc = "done"
    /\ run < MaxRuns
    /\ run' = run + 1
    /\ down' \in {down, {}}
    /\ pc' = "conferences"
    /\ status' = -1
    /\ running' = TRUE
    /\ all_conferences' = <<>>
    /\ all_topics' = <<>>
    /\ all_talks_by_topic' = <<>>
    /\ all_talks' = <<>>
    /\ playlists' = EmptyMap
    /\ pkeys' = <<>>
    /\ idx' = 1
    /\ hist' = HistInit(cache,
                        [outcome |-> pc, cache0 |-> hist.cache0, files |-> plfiles],
                        down' = down)
    /\ UNCHANGED <<config, site, media, cache, disk, plfiles>>

Next ==
    \/ DiscoverConferences
    \/ DiscoverTopics
    \/ TopicStep
    \/ TopicsClose
    \/ ExtractStep
    \/ ExtractClose
    \/ DownloadStep
    \/ DownloadClose
    \/ WriteStep
    \/ WriteClose
    \/ Cleanup
    \/ Rerun

Spec == Init /\ [][Next]_vars

(***************************************************************************)
(* The fetcher on its own: get_html called with any of a few URLs, in      *)
(* either language, with and without the cache, while resources fail and   *)
(* recover, a page is republished and the cache of a language is cleared.  *)
(***************************************************************************)
Page(name) == [EmptyHtml EXCEPT !.kind = name]

UrlA == LDS_ORG_URL \o <<"/a", "?lang=", "eng">>
UrlB == LDS_ORG_URL \o <<"/b", "&", "amp;", "x">>
UrlBB == LDS_ORG_URL \o <<"/b", "&", "amp;", "amp;", "x">>
UrlEmpty == LDS_ORG_URL \o <<"/empty">>
UrlGarbled == LDS_ORG_URL \o <<"/garbled">>
UrlMissing == LDS_ORG_URL \o <<"/missing">>

FetchUrls == {UrlA, UrlB, UrlBB, UrlEmpty, UrlGarbled, UrlMissing}

\* UrlEmpty is served as the gzip stream of no byte, UrlGarbled as bytes
\* that are no gzip stream, UrlMissing is not served
FetchSite(version) ==
    (unescape(UrlA) :> Resp(Page(version)))
    @@ (unescape(UrlB) :> Resp(Page("b")))
    @@ (unescape(UrlBB) :> Resp(Page("bb")))
    @@ (unescape(UrlEmpty) :> Resp(EmptyHtml))
    @@ (unescape(UrlGarbled) :> [gzip |-> FALSE, html |-> Page("garbled")])

FetchArgs(lang) ==
    [lang |-> lang, start |-> 2017, end |-> 2023, noplaylists |-> FALSE,
     nocleanup |-> FALSE, nonumbers |-> FALSE, speaker_min |-> 1]

Langs == {"eng", "spa"}

\* every URL is fetched in the default language, UrlA in both
FetchInputs == {<<url, "eng">> : url \in FetchUrls} \cup {<<UrlA, "spa">>}

FetchHist(op, url, lang, nocache, before, r, served) ==
    [op |-> op, url |-> url, lang |-> lang, nocache |-> nocache,
     before |-> before, html |-> r.html, reqs |-> r.reqs, failed |-> r.failed,
     raised |-> r.raised, served |-> served]

NoFetch ==
    [html |-> EmptyHtml, reqs |-> <<>>, failed |-> FALSE, raised |-> FALSE,
     fs |-> FALSE]

Idle ==
    /\ bar = "dummy"
    /\ media = EmptyMap
    /\ disk = EmptyMap
    /\ plfiles = {}
    /\ run = 1
    /\ status = -1
    /\ running = TRUE
    /\ all_topics = <<>>
    /\ all_talks_by_topic = <<>>
    /\ all_talks = <<>>
    /\ playlists = EmptyMap
    /\ pkeys = <<>>
    /\ idx = 1

idle == <<bar, media, disk, plfiles, run, status, running, all_topics,
          all_talks_by_topic, all_talks, playlists, pkeys, idx>>

InitFetch ==
    /\ Idle
    /\ cfg = FetchArgs("eng")
    /\ site = FetchSite("a1")
    /\ down = {}
    /\ cache = EmptyMap
    /\ pc = "fetcher"
    /\ all_conferences = <<>>
    /\ hist = FetchHist("start", <<>>, "eng", FALSE, EmptyMap, NoFetch, FALSE)

Fetch ==
    /\ \E in \in FetchInputs, nocache \in BOOLEAN :
          LET r == get_html(cache, FetchArgs(in[2]), in[1], nocache)
          IN  /\ cache' = r.cache
              /\ hist' = FetchHist("fetch", in[1], in[2], nocache, cache, r,
                                   urlopen(unescape(in[1])).ok)
    /\ UNCHANGED <<idle, cfg, site, down, pc, all_conferences>>

\* a resource starts to fail, or recovers
Outage ==
    /\ \E u \in {unescape(UrlA), unescape(UrlEmpty)} :
          down' = IF down = {} THEN {u} ELSE {}
    /\ hist' = [hist EXCEPT !.op = "outage"]
    /\ UNCHANGED <<idle, cfg, site, cache, pc, all_conferences>>

\* the page of UrlA is republished with other text
Publish ==
    /\ site' = FetchSite(IF site = FetchSite("a1") THEN "a2" ELSE "a1")
    /\ hist' = [hist EXCEPT !.op = "publish"]
    /\ UNCHANGED <<idle, cfg, down, cache, pc, all_conferences>>

ClearCache ==
    /\ \E lang \in Langs : cache' = remove_cached_files(cache, FetchArgs(lang))
    /\ hist' = [hist EXCEPT !.op = "clear"]
    /\ UNCHANGED <<idle, cfg, site, down, pc, all_conferences>>

NextFetch ==
    \/ Fetch
    \/ Outage
    \/ Publish
    \/ ClearCache

SpecFetch == InitFetch /\ [][NextFetch]_vars

(***************************************************************************)
(* The catalog crawler on its own: get_all_conferences over well-formed    *)
(* catalogs.  The index lists the conferences from year split on, newest   *)
(* first, then the groups of the older years, newest first; the page of a  *)
(* group lists its conferences newest first.  Every year has a conference. *)
(***************************************************************************)
CatYears == 2018..(2017 + MaxCatYears)

LastCatYear == 2017 + MaxCatYears

YearStr(y) == CHOOSE t \in DOMAIN YearTab : YearTab[t] = y

MonthStr(m) == CHOOSE t \in DOMAIN MonthTab : MonthTab[t] = m

CatEntry(y, m) ==
    [link |-> ConfLink(YearStr(y), MonthStr(m)),
     title |-> <<IF m = 4 THEN "April" ELSE "October", " ", YearStr(y)>>]

RECURSIVE CatEntries(_, _, _)
CatEntries(lo, hi, ms) ==
    IF hi < lo THEN <<>>
    ELSE (IF 10 \in ms[hi] THEN <<CatEntry(hi, 10)>> ELSE <<>>)
         \o (IF 4 \in ms[hi] THEN <<CatEntry(hi, 4)>> ELSE <<>>)
         \o CatEntries(lo, hi - 1, ms)

CatGroupLink(g) == GroupLink(YearStr(g.lo), YearStr(g.hi))

\* the older years as one group or as two
CatGroupings(split) ==
    {<<[lo |-> 2018, hi |-> split - 1]>>}
    \cup {<<[lo |-> cut, hi |-> split - 1], [lo |-> 2018, hi |-> cut - 1]>> :
             cut \in 2019..(split - 1)}

CatIndexDoc(split, groups, ms) ==
    [EmptyHtml EXCEPT
        !.kind = "index",
        !.confs = CatEntries(split, LastCatYear, ms),
        !.groups = [i \in 1..Len(groups) |->
                       [link |-> CatGroupLink(groups[i]),
                        title |-> <<YearStr(groups[i].lo), "-",
                                    YearStr(groups[i].hi)>>]]]

CatGroupDoc(g, ms) ==
    [EmptyHtml EXCEPT !.kind = "group", !.confs = CatEntries(g.lo, g.hi, ms)]

CatSite(split, groups, ms) ==
    LET pages == {Wire(CatGroupLink(g)) : g \in Range(groups)}
    IN  [u \in {IndexUrl} \cup pages |->
            IF u = IndexUrl THEN Resp(CatIndexDoc(split, groups, ms))
            ELSE Resp(CatGroupDoc(CHOOSE g \in Range(groups) :
                                      Wire(CatGroupLink(g)) = u, ms))]

CatHist(op, split, fetches) == [op |-> op, split |-> split, fetches |-> fetches]

InitCatalog ==
    /\ Idle
    /\ \E split \in CatYears \ {2018} :
          \E groups \in CatGroupings(split), ms \in [CatYears -> {{4, 10}, {10}}] :
             /\ site = CatSite(split, groups, ms)
             /\ hist = CatHist("start", split, <<>>)
    /\ \E first \in 2017..(LastCatYear + 1), last \in 2017..(LastCatYear + 1) :
          /\ first <= last
          /\ cfg = [FetchArgs("eng") EXCEPT !.start = first, !.end = last]
    /\ down \in {{}} \cup {{u} : u \in DOMAIN site}
    /\ cache = EmptyMap
    /\ pc = "catalog"
    /\ all_conferences = <<>>

Catalogue ==
    /\ pc = "catalog"
    /\ LET r == get_all_conferences(cache, cfg)
       IN  /\ all_conferences' = r.result
           /\ cache' = r.cache
           /\ hist' = CatHist("catalog", hist.split, Summaries(r.fetches))
    /\ pc' = "catalogued"
    /\ UNCHANGED <<idle, cfg, site, down>>

\* the resource that failed is served again, and the catalog is read anew
Recover ==
    /\ pc = "catalogued"
    /\ down # {}
    /\ down' = {}
    /\ pc' = "catalog"
    /\ hist' = CatHist("recover", hist.split, <<>>)
    /\ UNCHANGED <<idle, cfg, site, cache, all_conferences>>

NextCatalog ==
    \/ Catalogue
    \/ Recover

SpecCatalog == InitCatalog /\ [][NextCatalog]_vars

(***************************************************************************)
(* C1  (SpecFetch).  A fetch that may use the cache returns the cached     *)
(* document without any network request when the cache holds a document    *)
(* for the normalized url in the requested language; otherwise it makes    *)
(* exactly one network request and, when that succeeds, stores the decoded *)
(* document so that the next fetch of the same url is served from the      *)
(* cache.                                                                  *)
(***************************************************************************)
HeldBefore == get_from_cache(hist.before, FetchArgs(hist.lang), unescape(hist.url))

HeldNow == get_from_cache(cache, FetchArgs(hist.lang), unescape(hist.url))

FetchAgain == get_html(cache, FetchArgs(hist.lang), hist.url, FALSE)

C1_CacheAside ==
    (hist.op = "fetch" /\ ~hist.nocache) =>
        IF HeldBefore # <<>>
        THEN hist.html = HeldBefore[1] /\ hist.reqs = <<>>
        ELSE /\ Len(hist.reqs) = 1
             /\ hist.served =>
                   /\ HeldNow = <<hist.html>>
                   /\ FetchAgain.html = hist.html
                   /\ FetchAgain.reqs = <<>>

\* the same statement for documents that are not the empty text: it holds
C1_CacheAsideOfText ==
    (hist.op = "fetch" /\ ~hist.nocache) =>
        IF HeldBefore # <<>>
        THEN HeldBefore[1] # EmptyHtml =>
                hist.html = HeldBefore[1] /\ hist.reqs = <<>>
        ELSE /\ Len(hist.reqs) = 1
             /\ (hist.served /\ hist.html # EmptyHtml) =>
                   /\ HeldNow = <<hist.html>>
                   /\ FetchAgain.html = hist.html
                   /\ FetchAgain.reqs = <<>>

\* an empty document is held, and the fetch goes to the network all the same
C1_EmptyHeldRefetched ==
    /\ hist.op = "fetch"
    /\ ~hist.nocache
    /\ HeldBefore = <<EmptyHtml>>
    /\ Len(hist.reqs) = 1

(***************************************************************************)
(* C6  (SpecCatalog).  For a catalog index of direct entries and groups,   *)
(* newest first, and a requested range whose first year lies in a group    *)
(* and whose last year lies among the direct entries, the conferences      *)
(* get_all_conferences returns from the pages it was served all have a     *)
(* year within the range, the first has the first requested year, and the  *)
(* list is strictly ascending by (year, month).                            *)
(***************************************************************************)
Earlier(a, b) == a.year < b.year \/ (a.year = b.year /\ a.month < b.month)

SpansBoth ==
    /\ 2018 <= cfg.start
    /\ cfg.start < hist.split
    /\ hist.split <= cfg.end
    /\ cfg.end <= LastCatYear

AllServed == \A i \in 1..Len(hist.fetches) : ~hist.fetches[i].failed

C6_Catalog ==
    (pc = "catalogued" /\ SpansBoth /\ AllServed) =>
        /\ \A i \in 1..Len(all_conferences) :
              cfg.start <= all_conferences[i].year /\ all_conferences[i].year <= cfg.end
        /\ all_conferences # <<>>
        /\ all_conferences[1].year = cfg.start
        /\ \A i \in 1..Len(all_conferences) - 1 :
              Earlier(all_conferences[i], all_conferences[i + 1])

\* a range over two groups and the direct entries has been catalogued
C6_Witness ==
    /\ pc = "catalogued"
    /\ SpansBoth
    /\ AllServed
    /\ Len(hist.fetches) = 3
    /\ Len(all_conferences) >= 4
    /\ all_conferences[1].year < hist.split
    /\ all_conferences[Len(all_conferences)].year >= hist.split

(***************************************************************************)
(* C2  (Spec).  A fetch that fails (network or decompression) returns the  *)
(* empty text and raises nothing; the step that made it then goes on with  *)
(* zero matches for the document: when every fetch of a step failed, the   *)
(* step adds no conference, topic or talk, writes no audio, aggregates     *)
(* nothing, and the program neither crashes nor exits.                     *)
(***************************************************************************)
EveryFetchFailed(h) ==
    h.fetches # <<>> /\ \A i \in 1..Len(h.fetches) : h.fetches[i].failed

C2_FailureIsEmpty ==
    [][/\ \A i \in 1..Len(hist'.fetches) :
             hist'.fetches[i].failed =>
                 hist'.fetches[i].empty /\ ~hist'.fetches[i].raised
       /\ EveryFetchFailed(hist') =>
             /\ crawl' = crawl
             /\ disk' = disk
             /\ playlists' = playlists
             /\ plfiles' = plfiles
             /\ hist'.crash = ""
             /\ pc' \notin {"crashed", "exit"}]_vars

\* the page of a talk was not served, and the loop goes on to the next talk
C2_Witness ==
    /\ hist.op = "download"
    /\ EveryFetchFailed(hist)
    /\ pc = "download"
    /\ idx = 2
    /\ GCAll \in DOMAIN playlists
    /\ playlists[GCAll] = <<>>

(***************************************************************************)
(* C3  (Spec).  The program is run again with the same arguments, against  *)
(* an upstream that answers as before, a cache in which every document the *)
(* first run started with is as it was, and the audio and playlist files   *)
(* the first run left: when that run ends, the playlist files are the      *)
(* files of the first run, whatever the flags.                             *)
(***************************************************************************)
CacheUnchanged ==
    \A k \in DOMAIN hist.prior.cache0 :
        k \in DOMAIN hist.cache0 /\ hist.cache0[k] = hist.prior.cache0[k]

C3_RerunSameFiles ==
    (run >= 2 /\ pc = "done" /\ hist.sameUpstream /\ CacheUnchanged) =>
        plfiles = hist.prior.files

\* the second run found more in the cache than the first, and wrote the
\* same three lists again
C3_Witness ==
    /\ run = 2
    /\ pc = "done"
    /\ hist.sameUpstream
    /\ CacheUnchanged
    /\ hist.cache0 # hist.prior.cache0
    /\ hist.wrote
    /\ Cardinality(plfiles) >= 3
    /\ plfiles = hist.prior.files

(***************************************************************************)
(* C4  (Spec).  As the claim has it: when Cancel is read in the loop over  *)
(* the talks after at least one talk was aggregated, the program still     *)
(* writes the playlists.                                                   *)
(***************************************************************************)
CancelledInDownload == hist.cancelStage = "download"

Aggregated == GCAll \in DOMAIN playlists /\ playlists[GCAll] # <<>>

C4_StillWrites ==
    (Ended /\ CancelledInDownload /\ hist.crash = "" /\ Aggregated) =>
        hist.wrote

(***************************************************************************)
(* C4  (Spec), as the program has it.  Once Cancel is read in the loop     *)
(* over the talks, the loop ends with the talk in hand, the bar closes and *)
(* the program exits with status 2: write_playlists is never reached, no   *)
(* playlist file is written or removed, the cache is not cleaned.          *)
(***************************************************************************)
C4_CancelExits ==
    /\ []((CancelledInDownload /\ pc \notin {"download", "download_close"}) =>
             (pc = "exit" /\ status = 2 /\ ~hist.wrote))
    /\ [][CancelledInDownload => (plfiles' = plfiles /\ pc' \notin {"write", "cleanup"})]_vars

\* Cancel was read with two talks aggregated, and the program has exited
C4_Witness ==
    /\ pc = "exit"
    /\ status = 2
    /\ CancelledInDownload
    /\ hist.crash = ""
    /\ ~cfg.noplaylists
    /\ Len(playlists[GCAll]) >= 2
    /\ ~hist.wrote

(***************************************************************************)
(* C5  (Spec).  As the claim has it: a talk whose processing fails at any  *)
(* step is skipped and the loop goes on; no failure of one talk ends the   *)
(* program.                                                                *)
(***************************************************************************)
C5_FailedTalkSkipped ==
    (hist.op = "download" /\ hist.crash # "") => pc \in {"download", "download_close"}

(***************************************************************************)
(* C7  (Spec).  For every talk T of the working set, T.topics holds, once  *)
(* each, the topics of the records of all_talks_by_topic whose cleaned     *)
(* title and speaker are T's; with noplaylists the topic index is not      *)
(* crawled and T.topics is empty.                                          *)
(***************************************************************************)
TopicsJoined(T) ==
    {tbt.topic : tbt \in {x \in Range(all_talks_by_topic) :
                             x.title = T.title /\ x.speaker = T.speaker}}

AudioOnDisk(talk) ==
    LET ga == get_audio(cache, cfg, talk)
    IN  ga.audio # <<>> /\ FilePath(cfg, talk, ga.audio[1]) \in DOMAIN disk

Lists(key, title) ==
    key \in DOMAIN playlists /\ \E e \in Range(playlists[key]) : e.title = title

C8_ProceduralInTopics ==
    (pc = "write" /\ hist.cancelStage = "") =>
        \A s \in Range(hist.skipped) :
            (s.topics # <<>> /\ AudioOnDisk(s)) =>
                /\ ~Lists(SpeakerKey(s.speaker), s.title)
                /\ \A i \in 1..Len(s.topics) : Lists(TopicKey(s.topics[i]), s.title)

(***************************************************************************)
(* C9  (Spec).  At every moment the list of all talks holds its entries in *)
(* crawl order (the order of all_talks, the oldest requested year first),  *)
(* and every list of a speaker or of a topic holds its entries in the      *)
(* reverse of crawl order.                                                 *)
(***************************************************************************)
CrawlOrder(list) ==
    \A i \in 1..Len(list) - 1 :
        list[i].ord < list[i + 1].ord /\ list[i].year <= list[i + 1].year

ReverseCrawlOrder(list) ==
    \A i \in 1..Len(list) - 1 : list[i].ord > list[i + 1].ord

C9_BucketOrder ==
    \A key \in DOMAIN playlists :
        /\ \A i \in 1..Len(playlists[key]) :
              all_talks[playlists[key][i].ord].title = playlists[key][i].title
        /\ IF key = GCAll THEN CrawlOrder(playlists[key])
           ELSE ReverseCrawlOrder(playlists[key])

\* three talks in the list of all talks, two in a speaker's, two in a topic's
C9_Witness ==
    /\ GCAll \in DOMAIN playlists
    /\ Len(playlists[GCAll]) = 3
    /\ SpeakerKey(Ann) \in DOMAIN playlists
    /\ Len(playlists[SpeakerKey(Ann)]) = 2
    /\ TopicKey(Faith) \in DOMAIN playlists
    /\ Len(playlists[TopicKey(Faith)]) = 2

(***************************************************************************)
(* C10  (Spec).  When write_playlist_file has run for the list of a        *)
(* speaker, no playlist file of that speaker is left if the list has fewer *)
(* entries than speaker_min, a file of an earlier run included; if it has  *)
(* speaker_min entries or more, exactly one file is there, with a line for *)
(* each entry.                                                             *)
(***************************************************************************)
IsSpeakerKey(key) == key # <<>> /\ key[1] = SpeakerKey(<<>>)[1]

FilesOf(key) == {f \in plfiles : f.group = key}

C10_SpeakerMinimum ==
    (hist.op = "write" /\ IsSpeakerKey(hist.wkey)) =>
        IF Len(playlists[hist.wkey]) < cfg.speaker_min
        THEN FilesOf(hist.wkey) = {}
        ELSE /\ Cardinality(FilesOf(hist.wkey)) = 1
             /\ \A f \in FilesOf(hist.wkey) :
                   Len(f.lines) = Len(playlists[hist.wkey])

\* a speaker's list one short of the minimum took the file of an earlier
\* run with it
C10_Witness ==
    /\ hist.op = "write"
    /\ IsSpeakerKey(hist.wkey)
    /\ Len(playlists[hist.wkey]) = cfg.speaker_min - 1
    /\ Len(playlists[hist.wkey]) > 0
    /\ \E f \in hist.wremoved : f.group = hist.wkey
    /\ FilesOf(hist.wkey) = {}

\* a speaker's list of exactly the minimum was written
C10_AtMinimum ==
    /\ hist.op = "write"
    /\ IsSpeakerKey(hist.wkey)
    /\ Len(playlists[hist.wkey]) = cfg.speaker_min
    /\ cfg.speaker_min = MaxSpeakerMin
    /\ Cardinality(FilesOf(hist.wkey)) = 1

(***************************************************************************)
(* The audio resolver on its own: get_audio for one talk whose page is any *)
(* of a few documents, while the page is replaced upstream, fails and      *)
(* recovers.                                                               *)
(***************************************************************************)
\* a link no filename pattern finds a name in
StreamLink == <<"https://media/", "stream", "?lang=", "eng">>

\* what MP3_DOWNLOAD_REGEX finds in a page: nothing, an anchor with a file
\* name, an anchor without
AnchorChoices == {<<>>, <<DownloadLink("a.mp3")>>, <<StreamLink>>}

\* what SCRIPT_BASE64_REGEX finds: nothing; a blob that decodes and holds an
\* audio mediaUrl with a file name, one without a file name, or none; a blob
\* base64.b64decode rejects (its padding is wrong)
ScriptChoices ==
    {<<>>,
     <<[valid |-> TRUE, media |-> <<MediaLink("b.mp3")>>]>>,
     <<[valid |-> TRUE, media |-> <<StreamLink>>]>>,
     <<[valid |-> TRUE, media |-> <<>>]>>,
     <<[valid |-> FALSE, media |-> <<>>]>>}

TalkDocs ==
    {[EmptyHtml EXCEPT !.kind = "talk", !.mp3 = a, !.script = b] :
        a \in AnchorChoices, b \in ScriptChoices}

TheTalk ==
    Talk(Session(Conf2019, ConfLink("2019", "10") \o <<"#sat">>, "Saturday", 10),
         TalkLink("t1"), <<"Faith">>, Ann, <<>>)

AudioHist(op, html, ga) ==
    [op |-> op, html |-> html, audio |-> ga.audio, raised |-> ga.raised]

NoAudio == [audio |-> <<>>, raised |-> FALSE]

InitAudio ==
    /\ Idle
    /\ cfg = FetchArgs("eng")
    /\ \E doc \in TalkDocs : site = (Wire(TalkLink("t1")) :> Resp(doc))
    /\ down = {}
    /\ cache = EmptyMap
    /\ pc = "resolver"
    /\ all_conferences = <<>>
    /\ hist = AudioHist("start", EmptyHtml, NoAudio)

Resolve ==
    /\ LET ga == get_audio(cache, cfg, TheTalk)
       IN  /\ cache' = ga.cache
           /\ hist' = AudioHist("resolve", ga.fetches[1].html, ga)
    /\ UNCHANGED <<idle, cfg, site, down, pc, all_conferences>>

\* the page of the talk is replaced upstream
Replace ==
    /\ \E doc \in TalkDocs : site' = (Wire(TalkLink("t1")) :> Resp(doc))
    /\ hist' = [hist EXCEPT !.op = "replace"]
    /\ UNCHANGED <<idle, cfg, down, cache, pc, all_conferences>>

\* the page starts to fail, or is served again
PageOutage ==
    /\ down' = IF down = {} THEN {Wire(TalkLink("t1"))} ELSE {}
    /\ hist' = [hist EXCEPT !.op = "outage"]
    /\ UNCHANGED <<idle, cfg, site, cache, pc, all_conferences>>

\* remove_cached_files at the end of a run
ForgetPages ==
    /\ cache # EmptyMap
    /\ cache' = remove_cached_files(cache, cfg)
    /\ hist' = [hist EXCEPT !.op = "clear"]
    /\ UNCHANGED <<idle, cfg, site, down, pc, all_conferences>>

NextAudio ==
    \/ Resolve
    \/ Replace
    \/ PageOutage
    \/ ForgetPages

SpecAudio == InitAudio /\ [][NextAudio]_vars

(***************************************************************************)
(* C11  (SpecAudio).  get_audio is a two-tier lookup: when the page has    *)
(* the download anchor, its link is used; only when it has none, the       *)
(* script blob is decoded and its audio mediaUrl used; the result is the   *)
(* link and the file name derived from it, and it is absent exactly when   *)
(* neither tier finds a link or no file name can be derived from the link  *)
(* found.                                                                  *)
(***************************************************************************)
Tier1Link == hist.html.mp3

Tier2Link ==
    IF hist.html.script # <<>> /\ hist.html.script[1].valid
    THEN hist.html.script[1].media ELSE <<>>

LinkFound == IF Tier1Link # <<>> THEN Tier1Link ELSE Tier2Link

NameDerived ==
    IF LinkFound = <<>> THEN <<>>
    ELSE IF Tier1Link # <<>> THEN Mp3DownloadFilename(LinkFound[1])
    ELSE Mp3MediaUrlFilename(LinkFound[1])

TwoTier ==
    /\ ~hist.raised
    /\ hist.audio = <<>> <=> (LinkFound = <<>> \/ NameDerived = <<>>)
    /\ hist.audio # <<>> =>
          hist.audio[1] = Audio(LinkFound[1], NameDerived[1])

C11_TwoTier == hist.op = "resolve" => TwoTier

\* the same for the pages whose script blob, when get_audio comes to decode
\* it, is valid base64: it holds
ScriptDecoded ==
    Tier1Link # <<>> \/ hist.html.script = <<>> \/ hist.html.script[1].valid

C11_TwoTierDecodable == (hist.op = "resolve" /\ ScriptDecoded) => TwoTier

\* a page without the anchor whose script blob is not valid base64
C11_BlobRejected ==
    /\ hist.op = "resolve"
    /\ Tier1Link = <<>>
    /\ hist.html.script # <<>>
    /\ ~hist.html.script[1].valid
    /\ hist.raised

\* the script's mediaUrl was used, the page having no anchor
C11_Tier2Used ==
    /\ hist.op = "resolve"
    /\ Tier1Link = <<>>
    /\ hist.audio = <<Audio(MediaLink("b.mp3"), "b.mp3")>>

(***************************************************************************)
(* The duration text on its own: get_duration_text applied to durations of *)
(* up to MaxWeeks weeks, with every component at zero, at one, at its      *)
(* largest value, and the seconds at values that must not show.            *)
(***************************************************************************)
Durations ==
    {w * (60 * 60 * 24 * 7) + d * (60 * 60 * 24) + h * (60 * 60) + m * 60 + sec :
        w \in 0..MaxWeeks, d \in {0, 1, 6}, h \in {0, 1, 23}, m \in {0, 1, 2, 59},
        sec \in {0, 1, 5, 59}}

DurHist(op, secs, text) == [op |-> op, secs |-> secs, text |-> text]

InitDuration ==
    /\ Idle
    /\ cfg = FetchArgs("eng")
    /\ site = EmptyMap
    /\ down = {}
    /\ cache = EmptyMap
    /\ pc = "duration"
    /\ all_conferences = <<>>
    /\ \E secs \in Durations : hist = DurHist("start", secs, <<>>)

Format ==
    /\ pc = "duration"
    /\ pc' = "formatted"
    /\ hist' = DurHist("format", hist.secs, get_duration_text(hist.secs))
    /\ UNCHANGED <<idle, cfg, site, down, cache, all_conferences>>

NextDuration ==
    \/ Format

SpecDuration == InitDuration /\ [][NextDuration]_vars

(***************************************************************************)
(* C12  (SpecDuration).  The duration text of a non-negative number of     *)
(* seconds is its non-zero components weeks, days below 7, hours below 24, *)
(* minutes below 60, in that order, with the seconds dropped: the          *)
(* components add up to the duration less its seconds over the last whole  *)
(* minute.  125 gives 2m, 3725 gives 1h2m, 694861 gives 1w1d1h1m.          *)
(***************************************************************************)
UnitRank(unit) == CASE unit = "w" -> 4 [] unit = "d" -> 3 [] unit = "h" -> 2
                    [] unit = "m" -> 1

UnitSecs(unit) == CASE unit = "w" -> 604800 [] unit = "d" -> 86400
                    [] unit = "h" -> 3600 [] unit = "m" -> 60

UnitBelow(unit) == CASE unit = "w" -> MaxWeeks + 2 [] unit = "d" -> 7
                     [] unit = "h" -> 24 [] unit = "m" -> 60

RECURSIVE TextSecs(_, _)
TextSecs(text, i) ==
    IF i > Len(text) THEN 0
    ELSE text[i].n * UnitSecs(text[i].unit) + TextSecs(text, i + 1)

Comp(n, unit) == [n |-> n, unit |-> unit]

C12_DurationText ==
    pc = "formatted" =>
        /\ \A i \in 1..Len(hist.text) :
              /\ hist.text[i].unit \in {"w", "d", "h", "m"}
              /\ hist.text[i].n > 0
              /\ hist.text[i].n < UnitBelow(hist.text[i].unit)
        /\ \A i \in 1..Len(hist.text) - 1 :
              UnitRank(hist.text[i].unit) > UnitRank(hist.text[i + 1].unit)
        /\ TextSecs(hist.text, 1) <= hist.secs
        /\ hist.secs < TextSecs(hist.text, 1) + 60
        /\ hist.secs = 125 => hist.text = <<Comp(2, "m")>>
        /\ hist.secs = 3725 => hist.text = <<Comp(1, "h"), Comp(2, "m")>>
        /\ hist.secs = 694861 =>
              hist.text = <<Comp(1, "w"), Comp(1, "d"), Comp(1, "h"), Comp(1, "m")>>

\* a duration of all four components and a second over has been formatted
C12_Witness ==
    /\ pc = "formatted"
    /\ hist.secs = 694861
    /\ Len(hist.text) = 4

(***************************************************************************)
(* The pipeline on a destination that cannot be written: the writing of    *)
(* one kind of file (cache entries, audio files or playlist files) fails   *)
(* throughout the run.                                                     *)
(***************************************************************************)
InitWrites ==
    /\ cfg \in {c \in Configs : ~c.nonumbers /\ c.speaker_min = 1}
    /\ bar \in Bars
    /\ site = PipelineSite
    /\ media = PipelineMedia("mp3")
    /\ down \in {{FsCache}, {FsAudio}, {FsPlaylist}}
    /\ \E used \in BOOLEAN :
          /\ cache = IF used THEN UsedCache(cfg) ELSE EmptyMap
          /\ disk = IF used THEN UsedDisk(cfg) ELSE EmptyMap
          /\ plfiles = IF used THEN UsedFiles ELSE {}
          /\ hist = HistInit(cache, NoPrior, TRUE)
    /\ pc = "conferences"
    /\ run = 1
    /\ status = -1
    /\ running = TRUE
    /\ all_conferences = <<>>
    /\ all_topics = <<>>
    /\ all_talks_by_topic = <<>>
    /\ all_talks = <<>>
    /\ playlists = EmptyMap
    /\ pkeys = <<>>
    /\ idx = 1

SpecWrites == InitWrites /\ [][Next]_vars

(***************************************************************************)
(* C13  (SpecWrites).  As the claim has it: an error of the filesystem     *)
(* raised while a cache entry, an audio file or a playlist file is written *)
(* is never caught; it ends the program, and is never turned into empty    *)
(* content or a skipped talk.                                              *)
(***************************************************************************)
CacheWriteFailed(h) == \E i \in 1..Len(h.fetches) : h.fetches[i].fs

WriteErrorIn(h) ==
    \/ CacheWriteFailed(h)
    \/ (h.op = "download" /\ h.fserr = "audio")
    \/ (h.op = "write" /\ h.fserr = "playlist")

EndedBy(stage) ==
    \/ pc = "crashed" /\ status = 1
    \/ pc = "exit" /\ status = 2 /\ hist.cancelStage = stage

TalkInHand == all_talks[idx - 1]

C13_CacheWriteMasked ==
    /\ hist.op = "conferences"
    /\ CacheWriteFailed(hist)
    /\ all_conferences = <<>>
    /\ pc \in {"topics", "extract_close"}

\* the first playlist file could not be written
C13_PlaylistWriteFatal ==
    /\ hist.op = "write"
    /\ hist.fserr = "playlist"
    /\ pc = "crashed"

(***************************************************************************)
(* write_playlists on its own: the loop over the talks has run to its end  *)
(* for a working set of up to MaxTalks talks, each of either speaker and   *)
(* with any of a few lists of topics, the audio of every talk on disk; the *)
(* output directory holds no playlist, or playlists of an earlier run.     *)
(* The name of topic Faith is the beginning of the name of topic Faith     *)
(* Hope.                                                                   *)
(***************************************************************************)
TopicLists == {<<>>, <<Faith>>, <<FaithHope>>, <<Faith, FaithHope>>, <<FaithHope, Faith>>}

Conf2020 == Conference(ConfLink("2020", "04"), <<"April", " ", "2020">>, 2020, 4)

\* the i-th talk of a working set: of the older conference when the first
NthTalk(i, speaker, topics) ==
    Talk(Session(IF i = 1 THEN Conf2019 ELSE Conf2020, <<"#sat">>, "Saturday", 10 * i),
         TalkLink("t1"), <<"Talk">>, speaker, topics)

NthAudio(i) ==
    LET file == IF i = 1 THEN "a.mp3" ELSE IF i = 2 THEN "b.mp3" ELSE "c.mp3"
    IN  Audio(DownloadLink(file), file)

WorkingSets ==
    UNION {{[i \in 1..n |-> NthTalk(i, sp[i], tp[i])] :
               sp \in [1..n -> {Ann, Bob}], tp \in [1..n -> TopicLists]} :
           n \in 1..MaxTalks}

DiskOf(args, talks) ==
    [p \in {FilePath(args, talks[i], NthAudio(i)) : i \in 1..Len(talks)} |->
        Mp3Bytes(600)]

\* the loop of download_all_content over talks whose audio is on disk
RECURSIVE AggregateFrom(_, _, _, _, _)
AggregateFrom(args, pl, talks, d, i) ==
    IF i > Len(talks) THEN pl
    ELSE AggregateFrom(args, update_playlists(args, pl, talks[i], NthAudio(i), d, i),
                       talks, d, i + 1)

\* playlist files of topic Faith Hope and of speaker Bob from an earlier run
StaleFiles ==
    {[group |-> TopicKey(FaithHope), info |-> get_playlist_info(2019, 2019, 1, 600),
      lines |-> <<>>],
     [group |-> SpeakerKey(Bob), info |-> get_playlist_info(2019, 2019, 1, 125),
      lines |-> <<>>]}

InitPlaylists ==
    /\ cfg \in {c \in Configs : ~c.noplaylists /\ c.nocleanup /\ ~c.nonumbers}
    /\ bar \in Bars
    /\ site = PipelineSite
    /\ media = PipelineMedia("mp3")
    /\ down = {}
    /\ cache = EmptyMap
    /\ all_talks \in WorkingSets
    /\ disk = DiskOf(cfg, all_talks)
    /\ plfiles \in {{}, StaleFiles}
    /\ pkeys = create_playlists(cfg, all_talks)
    /\ playlists = AggregateFrom(cfg, [k \in Range(pkeys) |-> <<>>], all_talks, disk, 1)
    /\ hist = HistInit(cache, NoPrior, TRUE)
    /\ pc = "write"
    /\ run = 1
    /\ status = -1
    /\ running = TRUE
    /\ all_conferences = <<Conf2019, Conf2020>>
    /\ all_topics = <<>>
    /\ all_talks_by_topic = <<>>
    /\ idx = 1

NextPlaylists ==
    \/ WriteStep
    \/ WriteClose
    \/ Cleanup

SpecPlaylists == InitPlaylists /\ [][NextPlaylists]_vars

(***************************************************************************)
(* C14  (SpecPlaylists).  As the claim has it: when write_playlists has    *)
(* run over all the lists without a Cancel, every list that qualifies for  *)
(* writing has exactly one playlist file, whatever files earlier runs left *)
(* and even when the name of one group begins with the name of another.    *)
(***************************************************************************)
WrittenThrough == pc \in {"cleanup", "done"} /\ hist.cancelStage = ""

C14_OneFileEach ==
    WrittenThrough =>
        \A key \in DOMAIN playlists :
            OpensFile(cfg, playlists[key]) => Cardinality(FilesOf(key)) = 1

\* the same for the groups whose name no later written group's name begins:
\* it holds
LaterPrefix(key) ==
    \E i \in 1..Len(pkeys), j \in 1..Len(pkeys) :
        /\ i < j
        /\ pkeys[i] = key
        /\ pkeys[j] # key
        /\ IsPrefix(pkeys[j], key)

C14_OneFileUnlessGlobbed ==
    WrittenThrough =>
        \A key \in DOMAIN playlists :
            (OpensFile(cfg, playlists[key]) /\ ~LaterPrefix(key)) =>
                Cardinality(FilesOf(key)) = 1

\* the list of topic Faith Hope was written, and the writing of topic Faith
\* after it has removed the file
C14_FileGlobbedAway ==
    /\ WrittenThrough
    /\ TopicKey(FaithHope) \in DOMAIN playlists
    /\ OpensFile(cfg, playlists[TopicKey(FaithHope)])
    /\ LaterPrefix(TopicKey(FaithHope))
    /\ FilesOf(TopicKey(FaithHope)) = {}

(***************************************************************************)
(* C15  (Spec).  As the claim has it: the minimum applies to the speakers' *)
(* lists only, so that every non-empty list of the whole archive or of a   *)
(* topic is written to a file, however many entries it has.                *)
(***************************************************************************)
C15_OthersAlwaysWritten ==
    (hist.op = "write" /\ ~IsSpeakerKey(hist.wkey) /\ playlists[hist.wkey] # <<>>) =>
        /\ Cardinality(FilesOf(hist.wkey)) = 1
        /\ \A f \in FilesOf(hist.wkey) : Len(f.lines) = Len(playlists[hist.wkey])

\* what the code does for them: the same test as for a speaker's list
C15_OthersByMinimum ==
    (hist.op = "write" /\ ~IsSpeakerKey(hist.wkey) /\ playlists[hist.wkey] # <<>>) =>
        IF Len(playlists[hist.wkey]) < cfg.speaker_min
        THEN FilesOf(hist.wkey) = {}
        ELSE /\ Cardinality(FilesOf(hist.wkey)) = 1
             /\ \A f \in FilesOf(hist.wkey) :
                   Len(f.lines) = Len(playlists[hist.wkey])

\* the list of a topic, of one entry, was passed over for being short
C15_TopicBelowMinimum ==
    /\ hist.op = "write"
    /\ hist.wkey = TopicKey(FaithHope)
    /\ Len(playlists[hist.wkey]) = 1
    /\ cfg.speaker_min = 2
    /\ FilesOf(hist.wkey) = {}

\* and so was the list of the whole archive
C15_GlobalBelowMinimum ==
    /\ hist.op = "write"
    /\ hist.wkey = GCAll
    /\ Len(playlists[hist.wkey]) = 1
    /\ cfg.speaker_min = 2
    /\ FilesOf(hist.wkey) = {}

(***************************************************************************)
(* C16  (Spec).  As the claim has it: with playlists enabled, a talk of    *)
(* the loop whose audio get_audio resolved has its entries made exactly    *)
(* when its audio file is on disk after download_audio, whether it was     *)
(* there before or has just been written; and at every moment every entry  *)
(* of every list is of a file that is on disk.                             *)
(***************************************************************************)
\* the loop has just done the talk at place i of all_talks
JustProcessed(i) ==
    /\ hist.op = "download"
    /\ ~cfg.noplaylists
    /\ i = idx - 1
    /\ i \in 1..Len(all_talks)

HasEntries(i) == \E e \in Range(playlists[GCAll]) : e.ord = i

EntriesOnDisk ==
    \A key \in DOMAIN playlists :
        \A e \in Range(playlists[key]) : e.path \in DOMAIN disk

C16_EntriesIffOnDisk ==
    /\ \A i \in 1..Len(all_talks) :
          (JustProcessed(i) /\ get_audio(cache, cfg, all_talks[i]).audio # <<>>) =>
              (HasEntries(i) <=> AudioOnDisk(all_talks[i]))
    /\ EntriesOnDisk

\* what the code does: the entries are made exactly when the file on disk
\* is one MP3() loads and download_audio has not answered with no bytes
FileLoads(talk) ==
    LET ga == get_audio(cache, cfg, talk)
    IN  /\ AudioOnDisk(talk)
        /\ disk[FilePath(cfg, talk, ga.audio[1])].bytes = "mp3"

C16_EntriesIffLoaded ==
    /\ \A i \in 1..Len(all_talks) :
          (JustProcessed(i) /\ get_audio(cache, cfg, all_talks[i]).audio # <<>>) =>
              (HasEntries(i) <=> FileLoads(all_talks[i]))
    /\ EntriesOnDisk

\* the host answered with no bytes: the file is on disk, the talk has no
\* entry, and the loop goes on
C16_EmptyFileKept ==
    \E i \in 1..Len(all_talks) :
        /\ JustProcessed(i)
        /\ AudioOnDisk(all_talks[i])
        /\ ~HasEntries(i)
        /\ hist.crash = ""
        /\ media = PipelineMedia("empty")

\* a talk whose file was on disk before the run has its entries
C16_AlreadyPresent ==
    \E i \in 1..Len(all_talks) :
        /\ JustProcessed(i)
        /\ run = 2
        /\ HasEntries(i)
        /\ AudioOnDisk(all_talks[i])

====
